---- MODULE Spec2Model ----
(***************************************************************************)
(* Model of backend/main.py: the sequential, dependency-aware extraction   *)
(* pipeline (generate_documentation), the field extractor                  *)
(* (process_element with clean_response_content and json.loads) and the    *)
(* speaker segmenter (diarize_transcript).                                 *)
(*                                                                         *)
(* Text is modelled as a sequence of lexemes.  A completion reply is a     *)
(* sequence over ReplyTokens, a transcript a sequence over                 *)
(* TranscriptTokens; every lexeme stands for the literal text given next   *)
(* to its definition.                                                      *)
(***************************************************************************)
EXTENDS Integers, Sequences, FiniteSets, TLC

VARIABLES
    pc,          \* per request: position of the generate_documentation handler
    transcript,  \* per request: input.transcript
    idx,         \* per request: position of the for loop over ELEMENTS (1-based)
    results,     \* per request: the local dict results
    errors,      \* per request: the local dict errors
    inflight,    \* per request: number of completion calls issued and not returned
    calls,       \* per request: arguments of every process_element call so far
    replies,     \* per request: what the completion collaborator did on each call
    returned,    \* per request: what every process_element call returned
    response,    \* per request: the StructuredOutput handed back to the caller
    started,     \* number of requests accepted so far
    memo,        \* the replies a deterministic collaborator has committed to
    px_in,       \* field extractor in isolation: the collaborator's outcome
    px_out,      \* field extractor in isolation: what process_element returned
    registry,    \* the module-level list ELEMENTS
    listing,     \* what GET /elements returned last
    dz_in,       \* speaker segmenter in isolation: the transcript
    dz_out,      \* speaker segmenter in isolation: what diarize_transcript returned
    tpc,         \* per request: position of the transcribe_audio handler
    upload,      \* per request: the uploaded file (content type and audio)
    audio_data,  \* per request: the local audio_data
    temp_audio,  \* the content of the file temp_audio.wav
    transcribed, \* per request: the file content whisper transcribed
    tresponse    \* per request: what transcribe_audio handed back

\* The state outside generate_documentation and process_element.
sideVars == <<registry, listing, dz_in, dz_out, tpc, upload, audio_data,
              temp_audio, transcribed, tresponse>>

vars == <<pc, transcript, idx, results, errors, inflight, calls, replies,
          returned, response, started, memo, px_in, px_out, sideVars>>

(***************************** bounds ***************************************)
MaxRequests == 3     \* requests accepted by the server in one behaviour
MaxReplyLen == 5     \* lexemes in a completion reply (field extractor alone)
MaxTranscriptLen == 4  \* lexemes in a transcript (speaker segmenter alone)
MaxUnits == 3        \* sentence units in an assembled transcript

Requests == {1, 2}   \* request slots that can be active at the same time

(************************* Python values ************************************)
\* A value produced by json.loads, or Python's None.
\*   t = "none"   : None (also what JSON null parses to)
\*   t = "object" : a dict with n members
\*   t = "number" : the int n
None == [t |-> "none", n |-> 0]
JObject(n) == [t |-> "object", n |-> n]
JNumber(n) == [t |-> "number", n |-> n]
EmptyDict == JObject(0)

\* The Optional[str] error of process_element.
NoError == [kind |-> "none", name |-> "", exc |-> "", raw |-> <<>>]

\* Python truthiness of an Optional[str]: None and "" are falsy.
Truthy(error) == error.kind # "none"

\* d[k] = v on a dict modelled as a function.
Put(d, k, v) == [x \in (DOMAIN d) \cup {k} |-> IF x = k THEN v ELSE d[x]]

(************************* the registry *************************************)
\* The same registry with the aggregate element declared before vitals.
ELEMENTS_SummaryBeforeVitals == <<
    [id |-> "M1033",   name |-> "Risk for Hospitalization", depends_on |-> <<>>],
    [id |-> "M1800",   name |-> "Grooming",                 depends_on |-> <<>>],
    [id |-> "M1830",   name |-> "Bathing",                  depends_on |-> <<>>],
    [id |-> "summary", name |-> "Clinical Statement of Summary",
     depends_on |-> <<"M1033", "M1800", "M1830", "vitals">>],
    [id |-> "vitals",  name |-> "Vital Signs",              depends_on |-> <<>>] >>

ELEMENTS == <<
    [id |-> "M1033",   name |-> "Risk for Hospitalization", depends_on |-> <<>>],
    [id |-> "M1800",   name |-> "Grooming",                 depends_on |-> <<>>],
    [id |-> "M1830",   name |-> "Bathing",                  depends_on |-> <<>>],
    [id |-> "vitals",  name |-> "Vital Signs",              depends_on |-> <<>>],
    [id |-> "summary", name |-> "Clinical Statement of Summary",
     depends_on |-> <<"M1033", "M1800", "M1830", "vitals">>] >>
NumElements == Len(ELEMENTS)

ElementIds(k) == {ELEMENTS[i].id : i \in 1..k}

Range(s) == {s[i] : i \in DOMAIN s}

\* The table without an entry for the aggregate element.
output_format_NoSummary == {"M1033", "M1800", "M1830", "vitals"}

\* Keys of the dict output_format built inside process_element.
output_format == {"M1033", "M1800", "M1830", "vitals", "summary"}

(************************* diarize_transcript *******************************)
\* Transcript lexemes:
\*   "."  a full stop                  " "  a space
\*   "exam"          lower-case text without keyword, full stop or space
\*   "Exam"          the same text capitalised
\*   "patient says"  the keyword, lower case
\*   "Patient says"  the keyword, capitalised
\*   "states"        the keyword "states"
\*   "They report"   the keyword "they report", capitalised
\* and, outside TranscriptTokens, the keyword-free texts
\*   "Clinician examined patient"   "they feel dizzy"
TranscriptTokens == {".", " ", "exam", "Exam", "patient says", "Patient says", "states",
                     "They report"}

\* The keyword list without its first entry.
Keywords_NoPatientSays == {"they report", "states"}

Keywords == {"patient says", "they report", "states"}

\* Matching without lower-casing.
Lower_Identity(tok) == tok

\* str.lower() on one lexeme.
Lower(tok) ==
    CASE tok = "Patient says" -> "patient says"
      [] tok = "Exam" -> "exam"
      [] tok = "They report" -> "they report"
      [] tok = "Clinician examined patient" -> "clinician examined patient"
      [] OTHER -> tok

\* transcript.split(". "): non-overlapping occurrences, left to right; the
\* empty string splits into one empty unit.
RECURSIVE SplitFrom(_, _, _)
SplitFrom(t, i, cur) ==
    IF i > Len(t) THEN <<cur>>
    ELSE IF t[i] = "." /\ i < Len(t) /\ t[i + 1] = " "
         THEN <<cur>> \o SplitFrom(t, i + 2, <<>>)
         ELSE SplitFrom(t, i + 1, Append(cur, t[i]))

Split(t) == SplitFrom(t, 1, <<>>)

\* any(keyword in sentence.lower() for keyword in [...])
HasKeyword(sentence) == \E i \in DOMAIN sentence : Lower(sentence[i]) \in Keywords

\* ". ".join(units)
RECURSIVE Join(_)
Join(units) ==
    IF units = <<>> THEN <<>>
    ELSE IF Len(units) = 1 THEN units[1]
    ELSE units[1] \o <<".", " ">> \o Join(Tail(units))

\* The same function with the else missing: every sentence is appended to
\* clinician.
diarize_transcript_NoElse(t) ==
    LET sentences == Split(t)
        patientUnits == SelectSeq(sentences, HasKeyword)
    IN [clinician |-> Join(sentences), patient |-> Join(patientUnits)]

diarize_transcript(t) ==
    LET sentences == Split(t)
        patientUnits == SelectSeq(sentences, HasKeyword)
        IsClinician(s) == ~HasKeyword(s)
        clinicianUnits == SelectSeq(sentences, IsClinician)
    IN [clinician |-> Join(clinicianUnits), patient |-> Join(patientUnits)]

\* The raw input passed on instead of the recombined streams.
CombinedTranscript_Raw(t) == t

\* diarized["clinician"] + " " + diarized["patient"]
CombinedTranscript(t) ==
    LET diarized == diarize_transcript(t)
    IN diarized.clinician \o <<" ">> \o diarized.patient

(************************* clean_response_content ***************************)
\* Reply lexemes:
\*   "FENCE"      three backticks           "FENCEJSON"  three backticks + json
\*   "NL"         a newline
\*   "EMPTY"      {}                        "OBJ"        {"heart_rate": 78}
\*   "7"          the digit 7               "null"       the JSON literal null
\*   "TXT"        the words: not json
ReplyTokens == {"FENCE", "FENCEJSON", "NL", "EMPTY", "OBJ", "7", "null", "TXT"}

\* ^ under re.MULTILINE: start of the string or just after a newline.
AtLineStart(s, p) == p = 1 \/ s[p - 1] = "NL"

\* $ under re.MULTILINE: end of the string or just before a newline.
AtLineEnd(s, p) == p = Len(s) \/ s[p + 1] = "NL"

\* Lexeme p is part of a match of  ^```json\n|```$  and is deleted by re.sub.
Deleted(s, p) ==
    \/ s[p] = "FENCEJSON" /\ AtLineStart(s, p) /\ p < Len(s) /\ s[p + 1] = "NL"
    \/ s[p] = "NL" /\ p > 1 /\ s[p - 1] = "FENCEJSON" /\ AtLineStart(s, p - 1)
    \/ s[p] = "FENCE" /\ AtLineEnd(s, p)

RECURSIVE Sub(_, _)
Sub(s, p) ==
    IF p > Len(s) THEN <<>>
    ELSE IF Deleted(s, p) THEN Sub(s, p + 1)
    ELSE <<s[p]>> \o Sub(s, p + 1)

IsSpace(tok) == tok = "NL"

\* str.strip()
RECURSIVE Strip(_)
Strip(s) ==
    IF s = <<>> THEN s
    ELSE IF IsSpace(s[1]) THEN Strip(Tail(s))
    ELSE IF IsSpace(s[Len(s)]) THEN Strip(SubSeq(s, 1, Len(s) - 1))
    ELSE s

clean_response_content(content) == Strip(Sub(content, 1))

(************************* json.loads ***************************************)
RECURSIVE Digits(_)
Digits(s) == IF s = <<>> THEN 0 ELSE 10 * Digits(SubSeq(s, 1, Len(s) - 1)) + 7

\* json.loads(text): ok = FALSE stands for json.JSONDecodeError.
json_loads(text) ==
    LET body == Strip(text)
    IN IF body # <<>> /\ \A i \in DOMAIN body : body[i] = "7"
       THEN [ok |-> TRUE, value |-> JNumber(Digits(body))]
       ELSE IF Len(body) # 1 THEN [ok |-> FALSE, value |-> None]
       ELSE CASE body[1] = "EMPTY" -> [ok |-> TRUE, value |-> EmptyDict]
              [] body[1] = "OBJ"   -> [ok |-> TRUE, value |-> JObject(1)]
              [] body[1] = "null"  -> [ok |-> TRUE, value |-> None]
              [] OTHER             -> [ok |-> FALSE, value |-> None]

(************************* process_element **********************************)
\* What client.chat.completions.create did on one call:
\*   kind = "raise"     : it raised (network, timeout, API error)
\*   kind = "nocontent" : it returned a message whose content is None
\*   kind = "reply"     : it returned a message with the text content
Raise == [kind |-> "raise", content |-> <<>>]
NoContent == [kind |-> "nocontent", content |-> <<>>]
Reply(content) == [kind |-> "reply", content |-> content]

\* f"JSON parsing error for {element.name}: {e}, raw content: {raw_content}"
JsonError(element, raw_content) ==
    [kind |-> "json", name |-> element.name, exc |-> "JSONDecodeError", raw |-> raw_content]

\* f"Error processing element {element.name}: {e}"
ExcError(element, e) ==
    [kind |-> "exception", name |-> element.name, exc |-> e, raw |-> <<>>]

\* The same function without the handler "except Exception".
process_element_NoCatchAll(element, outcome) ==
    IF outcome.kind = "raise"
    THEN [raised |-> TRUE, result |-> None, error |-> NoError]
    ELSE IF outcome.kind = "nocontent"
    THEN [raised |-> TRUE, result |-> None, error |-> NoError]
    ELSE LET raw_content == outcome.content
             parsed == json_loads(clean_response_content(raw_content))
         IN IF ~parsed.ok
            THEN [raised |-> FALSE, result |-> None, error |-> JsonError(element, raw_content)]
            ELSE [raised |-> FALSE,
                  result |-> IF parsed.value # EmptyDict THEN parsed.value ELSE None,
                  error |-> NoError]

\* The same function reporting an empty mapping as a parse failure.
process_element_EmptyIsError(element, outcome) ==
    IF outcome.kind = "raise"
    THEN [raised |-> FALSE, result |-> None, error |-> ExcError(element, "APIError")]
    ELSE IF outcome.kind = "nocontent"
    THEN [raised |-> FALSE, result |-> None, error |-> ExcError(element, "TypeError")]
    ELSE LET raw_content == outcome.content
             parsed == json_loads(clean_response_content(raw_content))
         IN IF ~parsed.ok \/ parsed.value = EmptyDict
            THEN [raised |-> FALSE, result |-> None, error |-> JsonError(element, raw_content)]
            ELSE [raised |-> FALSE, result |-> parsed.value, error |-> NoError]

\* The try block of process_element and its two handlers, given what the
\* completion call did.  raised = TRUE would mean an exception leaves the
\* function.
\*   the call raises                  -> except Exception
\*   content is None: re.sub raises TypeError -> except Exception
\*   json.loads raises JSONDecodeError -> except json.JSONDecodeError
\*   otherwise: return result if result != {} else None, None
process_element(element, outcome) ==
    IF outcome.kind = "raise"
    THEN [raised |-> FALSE, result |-> None, error |-> ExcError(element, "APIError")]
    ELSE IF outcome.kind = "nocontent"
    THEN [raised |-> FALSE, result |-> None, error |-> ExcError(element, "TypeError")]
    ELSE LET raw_content == outcome.content
             parsed == json_loads(clean_response_content(raw_content))
         IN IF ~parsed.ok
            THEN [raised |-> FALSE, result |-> None, error |-> JsonError(element, raw_content)]
            ELSE [raised |-> FALSE,
                  result |-> IF parsed.value # EmptyDict THEN parsed.value ELSE None,
                  error |-> NoError]

(************************* generate_documentation ***************************)
\* Transcripts submitted by clients:
\*   ""                                     (the empty transcript)
\*   "Exam. Patient says exam."
\*   "states. exam"
Transcripts == { <<>>,
                 <<"Exam", ".", " ", "Patient says", " ", "exam", ".">>,
                 <<"states", ".", " ", "exam">> }

\* What the completion collaborator may do on a call of a request.
Outcomes == { Raise,
              NoContent,
              Reply(<<"EMPTY">>),
              Reply(<<"TXT">>),
              Reply(<<"FENCEJSON", "NL", "OBJ", "NL", "FENCE">>),
              Reply(<<"7">>) }

\* The part of a call that the completion request is built from: the element,
\* the transcript argument and the dependency context.
CallArgs(element, text, previous_results) ==
    [element |-> element.id, transcript |-> text, previous_results |-> previous_results]

\* {k: v for k, v in results.items() if k in element.depends_on}
previous_results(res, element) ==
    [k \in {x \in DOMAIN res : x \in Range(element.depends_on)} |-> res[k]]

\* results = {} / errors = {} at the start of a request, with every other
\* local of the handler.
StaleAccumulator(acc, r) == acc

FreshAccumulator(acc, r) == [acc EXCEPT ![r] = <<>>]

\* results[element.id] = result
StoreResult_Shared(res, r, id, result) == [q \in Requests |-> Put(res[q], id, result)]

\* Only results that are not None are stored.
StoreResult_SkipAbsent(res, r, id, result) ==
    IF result # None THEN [res EXCEPT ![r] = Put(@, id, result)] ELSE res

\* The accumulator is rebound to a dict holding only the new entry.
StoreResult_Replace(res, r, id, result) ==
    [res EXCEPT ![r] = [x \in {id} |-> result]]

StoreResult(res, r, id, result) == [res EXCEPT ![r] = Put(@, id, result)]

\* if error: errors[element.id] = error
StoreError_Always(errs, r, id, error) == [errs EXCEPT ![r] = Put(@, id, error)]

StoreError(errs, r, id, error) ==
    IF Truthy(error) THEN [errs EXCEPT ![r] = Put(@, id, error)] ELSE errs

\* The for loop moves on to the next element whatever the extractor returned.
NextIndex_StopOnError(i, error) == IF Truthy(error) THEN NumElements + 1 ELSE i + 1

NextIndex(i, error) == i + 1

\* StructuredOutput(elements=results, errors=errors): pydantic accepts
\* elements: Dict[str, Optional[Dict]] only if every value is None or a dict.
ValidElements(res) == \A k \in DOMAIN res : res[k].t \in {"none", "object"}

NoResponse == [elements |-> <<>>, errors |-> <<>>]

\* A client posts a transcript; the handler runs up to the first element.
Start(r, input) ==
    /\ pc[r] \in {"idle", "returned", "raised"}
    /\ started < MaxRequests
    /\ started' = started + 1
    /\ transcript' = [transcript EXCEPT ![r] = input]
    /\ results' = FreshAccumulator(results, r)
    /\ errors' = FreshAccumulator(errors, r)
    /\ idx' = [idx EXCEPT ![r] = 1]
    /\ inflight' = [inflight EXCEPT ![r] = 0]
    /\ calls' = [calls EXCEPT ![r] = <<>>]
    /\ replies' = [replies EXCEPT ![r] = <<>>]
    /\ returned' = [returned EXCEPT ![r] = <<>>]
    /\ response' = [response EXCEPT ![r] = NoResponse]
    /\ pc' = [pc EXCEPT ![r] = "loop"]
    /\ UNCHANGED <<memo, px_in, px_out, sideVars>>

\* The loop without the await: the next call is issued while the previous one
\* is still running.
Issue_NoAwait(r) ==
    /\ pc[r] = "loop"
    /\ idx[r] <= Len(registry)
    /\ LET element == registry[idx[r]]
       IN /\ calls' = [calls EXCEPT ![r] = Append(@,
                 CallArgs(element, CombinedTranscript(transcript[r]),
                          previous_results(results[r], element)))]
          /\ inflight' = [inflight EXCEPT ![r] = @ + 1]
          /\ idx' = [idx EXCEPT ![r] = @ + 1]
    /\ UNCHANGED <<pc, transcript, results, errors, replies, returned, response,
                   started, memo, px_in, px_out, sideVars>>

\* One iteration of the for loop up to the completion call: process_element is
\* entered with the combined transcript and the filtered results, builds the
\* prompt (looking up output_format[element.id]) and calls the collaborator.
Issue(r) ==
    /\ pc[r] = "loop"
    /\ idx[r] <= Len(registry)
    /\ LET element == registry[idx[r]]
       IN /\ calls' = [calls EXCEPT ![r] = Append(@,
                 CallArgs(element, CombinedTranscript(transcript[r]),
                          previous_results(results[r], element)))]
          /\ IF element.id \in output_format
             THEN /\ inflight' = [inflight EXCEPT ![r] = @ + 1]
                  /\ pc' = [pc EXCEPT ![r] = "await"]
             ELSE /\ inflight' = inflight
                  /\ pc' = [pc EXCEPT ![r] = "raised"]
    /\ UNCHANGED <<transcript, idx, results, errors, replies, returned, response,
                   started, memo, px_in, px_out, sideVars>>

\* The rest of the iteration once the collaborator did outcome: the handlers
\* of process_element, then the two stores of the loop body.
Complete(r, outcome) ==
    LET element == registry[idx[r]]
        ret == process_element(element, outcome)
    IN /\ inflight' = [inflight EXCEPT ![r] = @ - 1]
       /\ replies' = [replies EXCEPT ![r] = Append(@, outcome)]
       /\ returned' = [returned EXCEPT ![r] = Append(@, ret)]
       /\ IF ret.raised
          THEN /\ pc' = [pc EXCEPT ![r] = "raised"]
               /\ UNCHANGED <<results, errors, idx>>
          ELSE /\ results' = StoreResult(results, r, element.id, ret.result)
               /\ errors' = StoreError(errors, r, element.id, ret.error)
               /\ idx' = [idx EXCEPT ![r] = NextIndex(@, ret.error)]
               /\ pc' = [pc EXCEPT ![r] = "loop"]
       /\ UNCHANGED <<transcript, calls, response, started, px_in, px_out, sideVars>>

\* The completion call of request r ends, the collaborator being free to do
\* anything.
Return(r) ==
    /\ pc[r] = "await"
    /\ \E outcome \in Outcomes : Complete(r, outcome)
    /\ UNCHANGED memo

\* return StructuredOutput(elements=results, errors=errors)
Finish(r) ==
    /\ pc[r] = "loop"
    /\ idx[r] > Len(registry)
    /\ IF ValidElements(results[r])
       THEN /\ response' = [response EXCEPT ![r] = [elements |-> results[r], errors |-> errors[r]]]
            /\ pc' = [pc EXCEPT ![r] = "returned"]
       ELSE /\ response' = response
            /\ pc' = [pc EXCEPT ![r] = "raised"]
    /\ UNCHANGED <<transcript, idx, results, errors, inflight, calls, replies,
                   returned, started, memo, px_in, px_out, sideVars>>

\* The field extractor before it is called.
NotCalled == [done |-> FALSE, ret |-> [raised |-> FALSE, result |-> None, error |-> NoError]]

\* The speaker segmenter before it is called.
NotSegmented == [done |-> FALSE, clinician |-> <<>>, patient |-> <<>>]

\* No file uploaded, no response sent.
NoUpload == [content_type |-> <<>>, audio |-> "none"]

NoTranscription == [status |-> 0, transcript |-> <<>>, diarization |-> diarize_transcript(<<>>)]

\* The state outside generate_documentation at process start: ELEMENTS as
\* constructed at import, temp_audio.wav not written yet, no /transcribe
\* request active.
SideInit ==
    /\ registry = ELEMENTS
    /\ listing = <<>>
    /\ dz_in = <<>>
    /\ dz_out = NotSegmented
    /\ tpc = [r \in Requests |-> "idle"]
    /\ upload = [r \in Requests |-> NoUpload]
    /\ audio_data = [r \in Requests |-> "none"]
    /\ temp_audio = <<>>
    /\ transcribed = [r \in Requests |-> <<>>]
    /\ tresponse = [r \in Requests |-> NoTranscription]

RunInit ==
    /\ pc = [r \in Requests |-> "idle"]
    /\ transcript = [r \in Requests |-> <<>>]
    /\ idx = [r \in Requests |-> 1]
    /\ results = [r \in Requests |-> <<>>]
    /\ errors = [r \in Requests |-> <<>>]
    /\ inflight = [r \in Requests |-> 0]
    /\ calls = [r \in Requests |-> <<>>]
    /\ replies = [r \in Requests |-> <<>>]
    /\ returned = [r \in Requests |-> <<>>]
    /\ response = [r \in Requests |-> NoResponse]
    /\ started = 0
    /\ memo = <<>>

Init ==
    /\ RunInit
    /\ SideInit
    /\ px_in = Raise
    /\ px_out = NotCalled

\* One request at a time, the collaborator unconstrained.
Next ==
    \/ \E input \in Transcripts : Start(1, input)
    \/ Issue(1)
    \/ Return(1)
    \/ Finish(1)

Spec == Init /\ [][Next]_vars

(************************* concurrent requests ******************************)
ConcTranscripts == { <<>>, <<"Exam", ".", " ", "Patient says", " ", "exam", ".">> }

ConcOutcomes == { Raise, Reply(<<"OBJ">>) }

\* The completion call of request r ends while another request may be active.
ReturnConc(r) ==
    /\ pc[r] = "await"
    /\ \E outcome \in ConcOutcomes : Complete(r, outcome)
    /\ UNCHANGED memo

\* Two request slots served at the same time, interleaved at the completion
\* calls.
NextConc ==
    \E r \in Requests :
        \/ \E input \in ConcTranscripts : Start(r, input)
        \/ Issue(r)
        \/ ReturnConc(r)
        \/ Finish(r)

SpecConc == Init /\ [][NextConc]_vars

(************************* deterministic collaborator ***********************)
\* The completion call of request r ends, the collaborator's reply being a
\* function of the request: the first reply to a request is free, every later
\* reply to the same request repeats it.
ReturnDet(r) ==
    /\ pc[r] = "await"
    /\ LET request == calls[r][Len(calls[r])]
       IN IF request \in DOMAIN memo
          THEN /\ Complete(r, memo[request])
               /\ UNCHANGED memo
          ELSE \E outcome \in ConcOutcomes :
                  /\ Complete(r, outcome)
                  /\ memo' = Put(memo, request, outcome)

NextDet ==
    \E r \in Requests :
        \/ \E input \in ConcTranscripts : Start(r, input)
        \/ Issue(r)
        \/ ReturnDet(r)
        \/ Finish(r)

SpecDet == Init /\ [][NextDet]_vars

(************************* the field extractor alone ************************)
\* Every reply of at most MaxReplyLen lexemes.
BoundedReplies == UNION {[1..n -> ReplyTokens] : n \in 0..MaxReplyLen}

AllOutcomes == {Raise, NoContent} \cup {Reply(content) : content \in BoundedReplies}

\* The element the extractor is called for ("vitals").
ExtractElement == ELEMENTS[4]

InitExtract ==
    /\ RunInit
    /\ SideInit
    /\ px_in \in AllOutcomes
    /\ px_out = NotCalled

\* process_element is called and the collaborator does px_in.
Extract ==
    /\ ~px_out.done
    /\ px_out' = [done |-> TRUE, ret |-> process_element(ExtractElement, px_in)]
    /\ UNCHANGED <<px_in, pc, transcript, idx, results, errors, inflight, calls,
                   replies, returned, response, started, memo, sideVars>>

NextExtract == Extract

SpecExtract == InitExtract /\ [][NextExtract]_vars

(************************* the registry listing *****************************)
\* GET /elements: return ELEMENTS
get_elements ==
    /\ listing' = registry
    /\ UNCHANGED <<pc, transcript, idx, results, errors, inflight, calls, replies,
                   returned, response, started, memo, px_in, px_out,
                   registry, dz_in, dz_out, tpc, upload, audio_data, temp_audio,
                   transcribed, tresponse>>

\* One documentation request at a time next to listings of the registry.
NextRegistry ==
    \/ get_elements
    \/ \E input \in ConcTranscripts : Start(1, input)
    \/ Issue(1)
    \/ ReturnConc(1)
    \/ Finish(1)

SpecRegistry == Init /\ [][NextRegistry]_vars

(************************* the speaker segmenter alone **********************)
\* Every transcript of at most MaxTranscriptLen lexemes.
BoundedTranscripts == UNION {[1..n -> TranscriptTokens] : n \in 0..MaxTranscriptLen}

\* Sentence units transcripts are assembled from.
SampleUnits == { <<>>, <<"Exam">>, <<"exam", ".">>, <<"states">>,
                 <<"Patient says", " ", "exam">>, <<"They report">> }

\* Every transcript of one to MaxUnits sample units separated by ". ".
UnitTranscripts == {Join(us) : us \in UNION {[1..n -> SampleUnits] : n \in 1..MaxUnits}}

\* "Clinician examined patient. Patient says they feel dizzy."
ScenarioTranscript == <<"Clinician examined patient", ".", " ",
                        "Patient says", " ", "they feel dizzy", ".">>

InitDiarize ==
    /\ RunInit
    /\ px_in = Raise
    /\ px_out = NotCalled
    /\ registry = ELEMENTS
    /\ listing = <<>>
    /\ dz_in \in BoundedTranscripts \cup UnitTranscripts \cup {ScenarioTranscript}
    /\ dz_out = NotSegmented
    /\ tpc = [r \in Requests |-> "idle"]
    /\ upload = [r \in Requests |-> NoUpload]
    /\ audio_data = [r \in Requests |-> "none"]
    /\ temp_audio = <<>>
    /\ transcribed = [r \in Requests |-> <<>>]
    /\ tresponse = [r \in Requests |-> NoTranscription]

\* diarize_transcript is called on dz_in.
Diarize ==
    /\ ~dz_out.done
    /\ LET diarized == diarize_transcript(dz_in)
       IN dz_out' = [done |-> TRUE, clinician |-> diarized.clinician,
                     patient |-> diarized.patient]
    /\ UNCHANGED <<pc, transcript, idx, results, errors, inflight, calls, replies,
                   returned, response, started, memo, px_in, px_out,
                   registry, listing, dz_in, tpc, upload, audio_data, temp_audio,
                   transcribed, tresponse>>

NextDiarize == Diarize

SpecDiarize == InitDiarize /\ [][NextDiarize]_vars

(************************* transcribe_audio *********************************)
\* Uploaded files: the content type as the lexemes before and after the
\* slash, and the audio.
Uploads == { [content_type |-> <<"audio/", "wav">>, audio |-> "wavA"],
             [content_type |-> <<"audio/", "wav">>, audio |-> "wavB"],
             [content_type |-> <<"text/", "plain">>, audio |-> "wavA"] }

\* file.content_type.startswith("audio/")
IsAudio(content_type) == content_type # <<>> /\ content_type[1] = "audio/"

\* open("temp_audio.wav", "ab"): the data is appended to what the file holds.
WriteFile_Append(content, data) == Append(content, data)

\* open("temp_audio.wav", "wb") then f.write(audio_data): the file holds
\* exactly the data.
WriteFile(content, data) == <<data>>

\* result["text"] of whisper_model.transcribe on a file with this content.
WhisperText(content) ==
    IF content = <<"wavA">> THEN <<"Exam", ".", " ", "Patient says", " ", "exam", ".">>
    ELSE IF content = <<"wavB">> THEN <<"states", ".", " ", "exam">>
    ELSE <<>>

\* A client posts a file: the content type check, then the handler suspends
\* at await file.read().
TranscribeStart(r, file) ==
    /\ tpc[r] \in {"idle", "done", "failed", "rejected"}
    /\ started < MaxRequests
    /\ started' = started + 1
    /\ upload' = [upload EXCEPT ![r] = file]
    /\ audio_data' = [audio_data EXCEPT ![r] = "none"]
    /\ transcribed' = [transcribed EXCEPT ![r] = <<>>]
    /\ IF IsAudio(file.content_type)
       THEN /\ tpc' = [tpc EXCEPT ![r] = "reading"]
            /\ tresponse' = [tresponse EXCEPT ![r] = NoTranscription]
       ELSE /\ tpc' = [tpc EXCEPT ![r] = "rejected"]
            /\ tresponse' = [tresponse EXCEPT ![r] = [NoTranscription EXCEPT !.status = 400]]
    /\ UNCHANGED <<pc, transcript, idx, results, errors, inflight, calls, replies,
                   returned, response, memo, px_in, px_out,
                   registry, listing, dz_in, dz_out, temp_audio>>

\* The read completes and the handler runs to its end without suspending:
\* write temp_audio.wav, transcribe it (whisper may raise), segment the text.
TranscribeResume(r) ==
    /\ tpc[r] = "reading"
    /\ LET data == upload[r].audio
           content == WriteFile(temp_audio, data)
           text == WhisperText(content)
       IN /\ audio_data' = [audio_data EXCEPT ![r] = data]
          /\ temp_audio' = content
          /\ transcribed' = [transcribed EXCEPT ![r] = content]
          /\ \E whisperRaises \in BOOLEAN :
                IF whisperRaises
                THEN /\ tpc' = [tpc EXCEPT ![r] = "failed"]
                     /\ tresponse' = [tresponse EXCEPT ![r] =
                            [NoTranscription EXCEPT !.status = 500]]
                ELSE /\ tpc' = [tpc EXCEPT ![r] = "done"]
                     /\ tresponse' = [tresponse EXCEPT ![r] =
                            [status |-> 200, transcript |-> text,
                             diarization |-> diarize_transcript(text)]]
    /\ UNCHANGED <<pc, transcript, idx, results, errors, inflight, calls, replies,
                   returned, response, started, memo, px_in, px_out,
                   registry, listing, dz_in, dz_out, upload>>

\* Two /transcribe requests on one event loop, interleaved at the await.
NextTranscribe ==
    \E r \in Requests :
        \/ \E file \in Uploads : TranscribeStart(r, file)
        \/ TranscribeResume(r)

SpecTranscribe == Init /\ [][NextTranscribe]_vars

(************************* properties ***************************************)
ElementAt(i) == ELEMENTS[i]

\* C1: for every element with a non-empty dependency list, the dependency
\* context passed to its extractor holds only keys that are in its dependency
\* list and whose accumulated result is not absent; a failed dependency has
\* no entry in the context.
C1_ContextOnlyResolvedDependencies ==
    \A r \in Requests : \A i \in DOMAIN calls[r] :
        LET element == ElementAt(i)
            context == calls[r][i].previous_results
        IN element.depends_on # <<>> =>
              \A k \in DOMAIN context :
                  /\ k \in Range(element.depends_on)
                  /\ context[k] # None

C3_RunNeverRaises ==
    \A r \in Requests : pc[r] # "raised"

C5_ThreeOutcomes ==
    (px_out.done /\ px_in.kind = "reply") =>
        LET ret == px_out.ret
            parsed == json_loads(clean_response_content(px_in.content))
        IN /\ ~ret.raised
           /\ (parsed.ok /\ parsed.value = EmptyDict) =>
                 (ret.result = None /\ ret.error = NoError)
           /\ ~parsed.ok =>
                 (ret.result = None /\ Truthy(ret.error) /\ ret.error.raw = px_in.content)
           /\ (parsed.ok /\ parsed.value.t = "object" /\ parsed.value.n > 0) =>
                 (ret.result = parsed.value /\ ret.error = NoError)
           /\ px_in.content = <<"EMPTY">> =>
                 (ret.result = None /\ ret.error = NoError)
           /\ px_in.content = <<"TXT">> =>
                 (ret.result = None /\ ret.error.kind = "json")
           /\ px_in.content \in {<<"OBJ">>, <<"FENCEJSON", "NL", "OBJ", "NL", "FENCE">>} =>
                 (ret.result = JObject(1) /\ ret.error = NoError)

\* C5 witness: the fenced reply has been extracted.
C5_Witness ==
    /\ px_out.done
    /\ px_in = Reply(<<"FENCEJSON", "NL", "OBJ", "NL", "FENCE">>)
    /\ px_out.ret.result = JObject(1)

\* C6: when generate_documentation returns, the results accumulator has an
\* entry for every registry element, each absent or a mapping; and on the
\* empty transcript the run never raises.
C6_EveryElementHasResultAndEmptyTranscriptNeverRaises ==
    \A r \in Requests :
        /\ pc[r] = "returned" =>
              /\ DOMAIN response[r].elements = ElementIds(NumElements)
              /\ \A k \in DOMAIN response[r].elements :
                     response[r].elements[k].t \in {"none", "object"}
        /\ (pc[r] # "idle" /\ transcript[r] = <<>>) => pc[r] # "raised"

\* C7: the errors accumulator has an entry for X exactly if the extractor
\* returned an error string for X, and the entry is that string; successes
\* and insufficient information add no entry, and a failure adds none for
\* another element.
C7_ErrorsExactlyTheFailures ==
    \A r \in Requests :
        /\ DOMAIN errors[r] =
              {ElementAt(i).id : i \in {j \in DOMAIN returned[r] : Truthy(returned[r][j].error)}}
        /\ \A i \in DOMAIN returned[r] :
              Truthy(returned[r][i].error) => errors[r][ElementAt(i).id] = returned[r][i].error
        /\ pc[r] = "returned" => response[r].errors = errors[r]

\* C7 witness: a returned run whose only error entry is M1033, with an empty
\* M1800 and a successful vitals.
C7_Witness ==
    /\ pc[1] = "returned"
    /\ DOMAIN response[1].errors = {"M1033"}
    /\ response[1].elements["M1800"] = None
    /\ response[1].elements["vitals"] = JObject(1)

\* C8: elements of a run are processed strictly sequentially: at most one
\* completion request of the run is in flight, and when the call for an
\* element has been issued the results of all earlier elements are stored.
C8_OneCallInFlight ==
    \A r \in Requests :
        /\ inflight[r] \in {0, 1}
        /\ inflight[r] = Len(calls[r]) - Len(returned[r])
        /\ \A i \in DOMAIN calls[r] : ElementIds(i - 1) \subseteq DOMAIN results[r]

\* C8 witness: the call for the third element is in flight with the first two
\* results stored.
C8_Witness ==
    /\ pc[1] = "await"
    /\ inflight[1] = 1
    /\ Len(calls[1]) = 3
    /\ DOMAIN results[1] = ElementIds(2)

\* What one request computes from the collaborator's outcomes when it runs
\* alone: the loop of generate_documentation over the first k elements.
RECURSIVE AloneRun(_, _)
AloneRun(outs, k) ==
    IF k = 0 THEN [elements |-> <<>>, errors |-> <<>>]
    ELSE LET prev == AloneRun(outs, k - 1)
             element == ElementAt(k)
             ret == process_element(element, outs[k])
         IN [elements |-> Put(prev.elements, element.id, ret.result),
             errors |-> IF Truthy(ret.error)
                        THEN Put(prev.errors, element.id, ret.error)
                        ELSE prev.errors]

\* C9: concurrent runs do not interfere: under every interleaving each
\* request's accumulators, and what it returns, are those of a run alone with
\* the same completion outcomes; a step of one request leaves the other's
\* accumulators as they are.
C9_RunsDoNotInterfere ==
    \A r \in Requests :
        LET alone == AloneRun(replies[r], Len(replies[r]))
        IN /\ results[r] = alone.elements
           /\ errors[r] = alone.errors
           /\ pc[r] = "returned" => response[r] = alone

\* C9 witness: both requests wait for a completion at different elements,
\* holding different results for M1033.
C9_Witness ==
    /\ pc[1] = "await" /\ pc[2] = "await"
    /\ idx[1] = 3 /\ idx[2] = 2
    /\ transcript[1] # transcript[2]
    /\ results[1]["M1033"] # results[2]["M1033"]

Done(r) == pc[r] \in {"returned", "raised"}

\* C10: with a deterministic completion collaborator, two finished runs over
\* the same transcript hold identical results and identical errors, and
\* return the same response.
C10_SameTranscriptSameAccumulators ==
    \A r1 \in Requests : \A r2 \in Requests :
        (Done(r1) /\ Done(r2) /\ transcript[r1] = transcript[r2]) =>
            /\ results[r1] = results[r2]
            /\ errors[r1] = errors[r2]
            /\ response[r1] = response[r2]
            /\ pc[r1] = pc[r2]

\* C10 witness: two returned runs over the same transcript with an error for
\* M1033 and a result for summary.
C10_Witness ==
    /\ pc[1] = "returned" /\ pc[2] = "returned"
    /\ transcript[1] = transcript[2]
    /\ "M1033" \in DOMAIN response[1].errors
    /\ response[2].elements["summary"] = JObject(1)

\* C11: the registry satisfies the dependency-ordering invariant in every
\* state: it is the list built at import (no operation modifies it), its ids
\* are unique, every id of a depends_on list is the id of a strictly earlier
\* element, M1033, M1800, M1830 and vitals have no dependencies and summary
\* depends on exactly those four.
C11_RegistryOrdered ==
    /\ registry = ELEMENTS
    /\ \A i \in DOMAIN registry : \A j \in DOMAIN registry :
          registry[i].id = registry[j].id => i = j
    /\ \A i \in DOMAIN registry : \A k \in Range(registry[i].depends_on) :
          \E j \in 1..(i - 1) : registry[j].id = k
    /\ \A i \in DOMAIN registry :
          registry[i].id \in {"M1033", "M1800", "M1830", "vitals"} =>
              registry[i].depends_on = <<>>
    /\ \E i \in DOMAIN registry :
          /\ registry[i].id = "summary"
          /\ Range(registry[i].depends_on) = {"M1033", "M1800", "M1830", "vitals"}
          /\ Len(registry[i].depends_on) = 4
    /\ {registry[i].id : i \in DOMAIN registry}
          = {"M1033", "M1800", "M1830", "vitals", "summary"}

\* C11 witness: the registry has been listed after a documentation run walked
\* all of it.
C11_Witness ==
    /\ listing = registry
    /\ pc[1] = "returned"
    /\ Len(calls[1]) = Len(registry)

\* The units of a sequence whose mask entry equals keep, in their order.
RECURSIVE Pick(_, _, _)
Pick(units, mask, keep) ==
    IF units = <<>> THEN <<>>
    ELSE LET rest == Pick(Tail(units), [i \in 1..(Len(units) - 1) |-> mask[i + 1]], keep)
         IN IF mask[1] = keep THEN <<units[1]>> \o rest ELSE rest

\* C12: diarize_transcript puts every unit of the transcript (the pieces of
\* the split on ". ") into exactly one of the two streams and keeps the units'
\* order within each stream: there is an assignment of the units to the two
\* streams such that each stream is its units, in order, joined by ". ".
C12_StreamsPartitionUnits ==
    dz_out.done =>
        LET units == Split(dz_in)
        IN \E mask \in [1..Len(units) -> BOOLEAN] :
              /\ dz_out.clinician = Join(Pick(units, mask, TRUE))
              /\ dz_out.patient = Join(Pick(units, mask, FALSE))

\* C12 witness: a transcript of three non-empty units, the middle one patient
\* speech, has been segmented.
C12_Witness ==
    /\ dz_out.done
    /\ dz_in = <<"Exam", ".", " ", "states", ".", " ", "exam", ".">>
    /\ dz_out.clinician = <<"Exam", ".", " ", "exam", ".">>
    /\ dz_out.patient = <<"states">>

\* C13 as stated: the scenario transcript yields clinician = "Clinician
\* examined patient." with its trailing period and patient = "Patient says
\* they feel dizzy."
C13_ScenarioWithTrailingPeriod ==
    (dz_out.done /\ dz_in = ScenarioTranscript) =>
        /\ dz_out.clinician = <<"Clinician examined patient", ".">>
        /\ dz_out.patient = <<"Patient says", " ", "they feel dizzy", ".">>

\* C13 amended: the scenario transcript yields clinician = "Clinician
\* examined patient" without a trailing period (the split on ". " consumes
\* it) and patient = "Patient says they feel dizzy."
C13_ScenarioWithoutTrailingPeriod ==
    (dz_out.done /\ dz_in = ScenarioTranscript) =>
        /\ dz_out.clinician = <<"Clinician examined patient">>
        /\ dz_out.patient = <<"Patient says", " ", "they feel dizzy", ".">>

\* C13 witness: the scenario transcript has been segmented.
C13_Witness ==
    /\ dz_out.done
    /\ dz_in = ScenarioTranscript
    /\ dz_out.patient # <<>>

\* A unit whose text contains "patient says", "they report" or "states" in
\* any capitalisation.
MentionsKeyword(unit) ==
    \E i \in DOMAIN unit :
        unit[i] \in {"patient says", "Patient says", "They report", "states"}

MentionsNoKeyword(unit) == ~MentionsKeyword(unit)

\* C14: diarize_transcript returns two streams for every transcript, two
\* empty strings for the empty one, and a unit is in the patient stream
\* exactly if its lower-cased text contains one of the three keywords,
\* otherwise in the clinician stream.
C14_ClassifiedByKeywordOnly ==
    dz_out.done =>
        LET units == Split(dz_in)
        IN /\ dz_in = <<>> => (dz_out.clinician = <<>> /\ dz_out.patient = <<>>)
           /\ dz_out.patient = Join(SelectSeq(units, MentionsKeyword))
           /\ dz_out.clinician = Join(SelectSeq(units, MentionsNoKeyword))

\* C14 witness: capitalised keywords have been recognised next to a clinician
\* unit.
C14_Witness ==
    /\ dz_out.done
    /\ dz_in = <<"Patient says", " ", "exam", ".", " ", "Exam", ".", " ", "They report">>
    /\ dz_out.clinician = <<"Exam">>

\* C15: every extractor call of a run receives the same transcript argument,
\* the clinician stream, one space, the patient stream of the segmented
\* input, whatever the earlier elements returned.
C15_SameCombinedTranscript ==
    \A r \in Requests : \A i \in DOMAIN calls[r] :
        LET diarized == diarize_transcript(transcript[r])
        IN calls[r][i].transcript = diarized.clinician \o <<" ">> \o diarized.patient

\* C15 witness: all five calls were made for "Exam. Patient says exam." with
\* an argument that differs from the raw input, after a failure and a success.
C15_Witness ==
    /\ Len(calls[1]) = NumElements
    /\ transcript[1] = <<"Exam", ".", " ", "Patient says", " ", "exam", ".">>
    /\ calls[1][NumElements].transcript = <<"Exam", " ", "Patient says", " ", "exam", ".">>
    /\ calls[1][1].transcript # transcript[1]
    /\ "M1033" \in DOMAIN errors[1]
    /\ results[1]["M1800"] = JObject(1)

\* C16: an element never has both a result and an error: every id of the
\* errors accumulator has an absent value in the results accumulator, and the
\* keys of errors are keys of results.
C16_NoResultWithError ==
    \A r \in Requests :
        /\ DOMAIN errors[r] \subseteq DOMAIN results[r]
        /\ \A k \in DOMAIN errors[r] : results[r][k] = None

\* C16 witness: a run holding an error for vitals and a result for M1033.
C16_Witness ==
    /\ pc[1] = "loop"
    /\ DOMAIN errors[1] = {"vitals"}
    /\ results[1]["vitals"] = None
    /\ results[1]["M1033"] = JObject(1)

\* C17: the accumulators grow in registry order: after k elements have been
\* processed the keys of results are the ids of the first k registry
\* elements, and within a run an entry of results or errors is never
\* overwritten or removed.
C17_AccumulatorsGrowInOrder ==
    /\ [](\A r \in Requests : DOMAIN results[r] = ElementIds(Len(returned[r])))
    /\ [][started' = started =>
            \A r \in Requests :
                /\ \A k \in DOMAIN results[r] :
                      k \in DOMAIN results'[r] /\ results'[r][k] = results[r][k]
                /\ \A k \in DOMAIN errors[r] :
                      k \in DOMAIN errors'[r] /\ errors'[r][k] = errors[r][k]]_vars

\* C17 witness: three elements processed, the first with an error, the third
\* with a result.
C17_Witness ==
    /\ Len(returned[1]) = 3
    /\ DOMAIN results[1] = {"M1033", "M1800", "M1830"}
    /\ "M1033" \in DOMAIN errors[1]
    /\ results[1]["M1830"] = JObject(1)

\* C18: every registry element has an entry in the output-shape table, so the
\* lookup made while the request is built never fails: a run raises only
\* after all its calls have returned.
C18_EveryElementHasOutputFormat ==
    /\ \A i \in DOMAIN registry : registry[i].id \in output_format
    /\ \A r \in Requests : pc[r] = "raised" => Len(calls[r]) = Len(returned[r])

\* C18 witness: the request for the last element, summary, has been built
\* and sent.
C18_Witness ==
    /\ pc[1] = "await"
    /\ Len(calls[1]) = NumElements
    /\ calls[1][NumElements].element = "summary"
    /\ Len(returned[1]) = NumElements - 1

\* C19: under every interleaving of two /transcribe requests at the awaited
\* upload read, the file content a request transcribes is the audio that
\* request uploaded, and a successful response carries the text of that
\* audio.
C19_TranscribesOwnUpload ==
    \A r \in Requests :
        /\ tpc[r] \in {"done", "failed"} => transcribed[r] = <<upload[r].audio>>
        /\ tpc[r] = "done" =>
              /\ tresponse[r].status = 200
              /\ tresponse[r].transcript = WhisperText(<<upload[r].audio>>)

\* C19 witness: two requests with different audio are both done, the file
\* holding the second one's audio.
C19_Witness ==
    /\ tpc[1] = "done" /\ tpc[2] = "done"
    /\ upload[1].audio = "wavA" /\ upload[2].audio = "wavB"
    /\ temp_audio = <<"wavB">>
    /\ tresponse[1].transcript # tresponse[2].transcript

====
